---- MODULE Spec2Model ----
(***************************************************************************)
(* The two gesture recognizers of src/src: ShellDndStartGesture            *)
(* (shell-dnd-start-gesture.c) and ShellEdgeDragGesture                    *)
(* (shell-edge-drag-gesture.c), each driven through the ClutterGesture     *)
(* vfuncs point_began / point_moved / point_ended / state_changed.         *)
(*                                                                         *)
(* One gesture instance is modelled; klass says which of the two classes   *)
(* it is, and so which vfuncs the framework dispatches to.                 *)
(***************************************************************************)
EXTENDS Integers, Sequences, FiniteSets, TLC

VARIABLES
  klass,      \* class of the gesture instance: "DndStart" or "EdgeDrag"
  state,      \* ClutterGestureState of the instance
  n_points,   \* clutter_gesture_get_n_points
  point,      \* the point the callbacks read (begin coords, coords, event)
  dnd_priv,   \* ShellDndStartGesturePrivate
  edge_priv,  \* ShellEdgeDragGesturePrivate
  sources,    \* ids of the GLib timeout sources currently scheduled
  settings,   \* StSettings drag-threshold and the theme context scale factor
  signals,    \* what the last step emitted: progress values and notifies
  transitions,  \* the state transitions the last step applied, in order
  event_copies, \* the ClutterEvent copies allocated and not yet freed
  last_op,    \* the last point callback, timer callback or start_drag call run
  aborted     \* TRUE once a g_assert of the instance has failed

vars == <<klass, state, n_points, point, dnd_priv, edge_priv, sources,
          settings, signals, transitions, event_copies, last_op, aborted>>

(***************************************************************************)
(* Bounds of the model.                                                    *)
(***************************************************************************)
MaxPoints == 2
MaxTime == 2
MaxCoord == 3
MaxTimeout == 1

(***************************************************************************)
(* Program constants.                                                      *)
(***************************************************************************)
EDGE_THRESHOLD == 20
DRAG_DISTANCE == 80
CANCEL_THRESHOLD == 100
CANCEL_TIMEOUT_MS == 200

\* A null event pointer, and the point record while no point is tracked.
NULL == [type |-> "NULL"]
NoPoint == [event |-> NULL]

POSSIBLE == "POSSIBLE"
RECOGNIZING == "RECOGNIZING"
CANCELLED == "CANCELLED"
COMPLETED == "COMPLETED"

Abs(v) == IF v < 0 THEN -v ELSE v

(***************************************************************************)
(* The gesture framework, which is not part of the repository: the state   *)
(* enum with its transition validation, and the dispatch of the point      *)
(* callbacks.  A transition is applied only from POSSIBLE or RECOGNIZING;  *)
(* a request made in a terminal state is ignored.                          *)
(***************************************************************************)
ValidTransition(old, new) ==
  \/ old = POSSIBLE /\ new \in {RECOGNIZING, CANCELLED, COMPLETED}
  \/ old = RECOGNIZING /\ new \in {CANCELLED, COMPLETED}

\* clutter_event_copy: a copy of the event, allocated under an id of its own.
NewCopyId(copies) ==
  CHOOSE id \in 1 .. (Cardinality(copies.live) + 1) : id \notin copies.live

clutter_event_copy(event, id) ==
  [type |-> event.type, button |-> event.button, device |-> event.device,
   time |-> event.time, copy |-> id]

Allocated(copies, id) == [copies EXCEPT !.live = @ \cup {id}]

\* clutter_event_free: the copy is released; freeing what is not allocated is
\* an invalid free.
clutter_event_free(copies, event) ==
  IF event.copy \in copies.live
    THEN [copies EXCEPT !.live = @ \ {event.copy}]
    ELSE [copies EXCEPT !.invalid_free = TRUE]

\* Variant: only a cancellation releases the event copies.
dnd_state_changed_on_cancel(s, old_state, new_state) ==
  IF new_state = CANCELLED
    THEN LET t == IF s.priv.drag_triggering_event # NULL
                    THEN [s EXCEPT
                            !.copies = clutter_event_free(
                                         @, s.priv.drag_triggering_event),
                            !.priv.drag_triggering_event = NULL]
                    ELSE s
         IN  IF t.priv.point_begin_event # NULL
               THEN [t EXCEPT
                       !.copies = clutter_event_free(
                                    @, t.priv.point_begin_event),
                       !.priv.point_begin_event = NULL]
               ELSE t
    ELSE s

\* Variant: the pointers are cleared and the copies are not freed.
dnd_state_changed_drops_copies(s, old_state, new_state) ==
  IF new_state = CANCELLED \/ new_state = COMPLETED
    THEN [s EXCEPT !.priv.drag_triggering_event = NULL,
                   !.priv.point_begin_event = NULL]
    ELSE s

\* Variant: the triggering event is kept for the owner to read.
dnd_state_changed_keeps_trigger(s, old_state, new_state) ==
  IF new_state = CANCELLED \/ new_state = COMPLETED
    THEN IF s.priv.point_begin_event # NULL
           THEN [s EXCEPT
                   !.copies = clutter_event_free(@, s.priv.point_begin_event),
                   !.priv.point_begin_event = NULL]
           ELSE s
    ELSE s

\* The state_changed vfunc of ShellDndStartGesture.
dnd_state_changed(s, old_state, new_state) ==
  IF new_state = CANCELLED \/ new_state = COMPLETED
    THEN LET t == IF s.priv.drag_triggering_event # NULL
                    THEN [s EXCEPT
                            !.copies = clutter_event_free(
                                         @, s.priv.drag_triggering_event),
                            !.priv.drag_triggering_event = NULL]
                    ELSE s
         IN  IF t.priv.point_begin_event # NULL
               THEN [t EXCEPT
                       !.copies = clutter_event_free(
                                    @, t.priv.point_begin_event),
                       !.priv.point_begin_event = NULL]
               ELSE t
    ELSE s

\* The state_changed vfunc of ShellEdgeDragGesture.
\* g_clear_handle_id (&priv->cancel_timeout_id, g_source_remove)
ClearCancelTimeout(s) ==
  IF s.priv.cancel_timeout_id # 0
    THEN [s EXCEPT !.sources = @ \ {s.priv.cancel_timeout_id},
                   !.priv.cancel_timeout_id = 0]
    ELSE s

\* Variant: only a cancellation removes the cancel timer.
edge_state_changed_on_cancel(s, old_state, new_state) ==
  IF new_state = CANCELLED
    THEN ClearCancelTimeout(s)
    ELSE s

edge_state_changed(s, old_state, new_state) ==
  IF new_state = CANCELLED \/ new_state = COMPLETED
    THEN ClearCancelTimeout(s)
    ELSE s

\* The state_changed vfunc of the gesture's class.
StateChangedVfunc(class, s, old_state, new_state) ==
  IF class = "DndStart"
    THEN dnd_state_changed(s, old_state, new_state)
    ELSE edge_state_changed(s, old_state, new_state)

\* clutter_gesture_set_state: validate, apply, then run the class's
\* state_changed vfunc on the result.
clutter_gesture_set_state(s, new, class) ==
  IF ValidTransition(s.state, new)
    THEN StateChangedVfunc(
           class,
           [s EXCEPT !.state = new,
                     !.transitions = Append(@, <<s.state, new>>)],
           s.state, new)
    ELSE s

\* The point callbacks are dispatched only while the gesture is undecided.
Active == state \in {POSSIBLE, RECOGNIZING}

\* State of the gesture when a sequence begins: a sequence that begins with no
\* point active starts a fresh attempt.
BeginState == IF n_points = 0 THEN POSSIBLE ELSE state

(***************************************************************************)
(* Events and points.                                                      *)
(***************************************************************************)
Times == 0 .. MaxTime

\* Events that may begin a sequence: button presses of a pointer-like device,
\* touch begins of a touchscreen, and a sample of another event type.
SequenceBeginEvents ==
  { [type |-> "BUTTON_PRESS", button |-> b, device |-> "POINTER_DEVICE",
     time |-> t] : b \in {1, 3}, t \in Times }
  \cup
  { [type |-> "BUTTON_PRESS", button |-> 1, device |-> "TOUCHPAD_DEVICE",
     time |-> t] : t \in Times }
  \cup
  { [type |-> ty, button |-> 0, device |-> "TOUCHSCREEN_DEVICE", time |-> t] :
      ty \in {"TOUCH_BEGIN", "PAD_BUTTON_PRESS"}, t \in Times }

\* The update event of a point: same device, a later (or equal) time.
UpdateEvents(ev) ==
  { [type |-> IF ev.type \in {"BUTTON_PRESS", "MOTION"}
                THEN "MOTION" ELSE "TOUCH_UPDATE",
     button |-> 0, device |-> ev.device, time |-> t] :
      t \in { u \in Times : u >= ev.time } }

Coords(xs, ys) == { [x |-> cx, y |-> cy] : cx \in xs, cy \in ys }

\* Where DndStart points begin and move: a begin in either corner of a small
\* grid, so that displacements of both signs occur on both axes; x sweeps the
\* grid while y rests on either border.
DndBeginCoords == { [x |-> 0, y |-> 0], [x |-> MaxCoord, y |-> MaxCoord] }
DndCoords == Coords(0 .. MaxCoord, {0, MaxCoord})

DragThresholds == {1}
ScaleFactors == {1, 2}
TimeoutThresholds == 0 .. MaxTimeout

(***************************************************************************)
(* ShellDndStartGesture.  The operators below work on a record             *)
(* s = [state, priv] and return the record after the call.                 *)
(***************************************************************************)
\* Variant: only a touch begins a sequence.
should_handle_touch_only(sequence_begin_event) ==
  IF sequence_begin_event.type = "TOUCH_BEGIN" THEN TRUE ELSE FALSE

dnd_should_handle_sequence(sequence_begin_event) ==
  IF \/ sequence_begin_event.type = "BUTTON_PRESS"
     \/ sequence_begin_event.type = "TOUCH_BEGIN"
    THEN TRUE
    ELSE FALSE

\* Variant: the drag starts only when a triggering event is given.
start_drag_needs_event(s, n, start_event) ==
  IF n # 1
    THEN s
    ELSE IF s.state = POSSIBLE /\ start_event # NULL
      THEN clutter_gesture_set_state(
             [s EXCEPT !.priv.drag_triggering_event =
                          clutter_event_copy(start_event, NewCopyId(s.copies)),
                       !.copies = Allocated(@, NewCopyId(s.copies))],
             COMPLETED, "DndStart")
      ELSE s

\* Variant: the triggering event is copied before the state is looked at.
start_drag_copies_first(s, n, start_event) ==
  IF n # 1
    THEN s
    ELSE LET t == IF start_event # NULL
                    THEN [s EXCEPT
                            !.priv.drag_triggering_event =
                               clutter_event_copy(start_event,
                                                  NewCopyId(s.copies)),
                            !.copies = Allocated(@, NewCopyId(s.copies))]
                    ELSE s
         IN  IF t.state = POSSIBLE
               THEN clutter_gesture_set_state(t, COMPLETED, "DndStart")
               ELSE t

shell_dnd_start_gesture_start_drag(s, n, start_event) ==
  IF n # 1
    THEN s
    ELSE IF s.state = POSSIBLE
      THEN clutter_gesture_set_state(
             IF start_event # NULL
               THEN [s EXCEPT
                       !.priv.drag_triggering_event =
                          clutter_event_copy(start_event, NewCopyId(s.copies)),
                       !.copies = Allocated(@, NewCopyId(s.copies))]
               ELSE s,
             COMPLETED, "DndStart")
      ELSE s

\* drag_threshold *= scale factor
ScaledDragThreshold(st) == st.drag_threshold * st.scale_factor

ExceedsDragThreshold(pt, st) ==
  \/ Abs(pt.coords.x - pt.begin_coords.x) > ScaledDragThreshold(st)
  \/ Abs(pt.coords.y - pt.begin_coords.y) > ScaledDragThreshold(st)

\* Variant: a touchpad is not taken for a pointer device.
is_pointer_only(event) ==
  event.device = "POINTER_DEVICE"

is_pointer_or_touchpad(event) ==
  \/ event.device = "POINTER_DEVICE"
  \/ event.device = "TOUCHPAD_DEVICE"

\* guint32 ellapsed_time = time (event) - time (point_begin_event).  The event
\* times of a point never decrease, so the subtraction does not wrap.
EllapsedTime(event, begin_event) ==
  event.time - begin_event.time

\* Variant: the check is made again although drag_threshold_ignored is set.
maybe_start_drag_rechecks(s, n, pt, st) ==
  IF ExceedsDragThreshold(pt, st)
    THEN IF \/ is_pointer_or_touchpad(pt.event)
            \/ EllapsedTime(pt.event, s.priv.point_begin_event)
                 > s.priv.timeout_threshold_ms
           THEN shell_dnd_start_gesture_start_drag(s, n, pt.event)
           ELSE [s EXCEPT !.priv.drag_threshold_ignored = TRUE]
    ELSE s

\* Variant: a touch starts the drag once the elapsed time reaches the timeout.
maybe_start_drag_at_timeout(s, n, pt, st) ==
  IF s.priv.drag_threshold_ignored
    THEN s
    ELSE IF ExceedsDragThreshold(pt, st)
      THEN IF \/ is_pointer_or_touchpad(pt.event)
              \/ EllapsedTime(pt.event, s.priv.point_begin_event)
                   >= s.priv.timeout_threshold_ms
             THEN shell_dnd_start_gesture_start_drag(s, n, pt.event)
             ELSE [s EXCEPT !.priv.drag_threshold_ignored = TRUE]
      ELSE s

\* Variant: the flag suppresses the check only until the timeout has passed.
maybe_start_drag_retries_after_timeout(s, n, pt, st) ==
  IF /\ s.priv.drag_threshold_ignored
     /\ EllapsedTime(pt.event, s.priv.point_begin_event)
          <= s.priv.timeout_threshold_ms
    THEN s
    ELSE IF ExceedsDragThreshold(pt, st)
      THEN IF \/ is_pointer_or_touchpad(pt.event)
              \/ EllapsedTime(pt.event, s.priv.point_begin_event)
                   > s.priv.timeout_threshold_ms
             THEN shell_dnd_start_gesture_start_drag(s, n, pt.event)
             ELSE [s EXCEPT !.priv.drag_threshold_ignored = TRUE]
      ELSE s

maybe_start_drag(s, n, pt, st) ==
  IF s.priv.drag_threshold_ignored
    THEN s
    ELSE IF ExceedsDragThreshold(pt, st)
      THEN IF \/ is_pointer_or_touchpad(pt.event)
              \/ EllapsedTime(pt.event, s.priv.point_begin_event)
                   > s.priv.timeout_threshold_ms
             THEN shell_dnd_start_gesture_start_drag(s, n, pt.event)
             ELSE [s EXCEPT !.priv.drag_threshold_ignored = TRUE]
      ELSE s

dnd_point_began(s, n, pt, st) ==
  IF n > 1
    THEN clutter_gesture_set_state(s, CANCELLED, "DndStart")
    ELSE LET t == [s EXCEPT !.priv.point_begin_event =
                               clutter_event_copy(pt.event, NewCopyId(s.copies)),
                            !.copies = Allocated(@, NewCopyId(s.copies)),
                            !.priv.drag_threshold_ignored = FALSE]
         IN  IF ~t.priv.manual_mode /\ t.state = POSSIBLE
               THEN maybe_start_drag(t, n, pt, st)
               ELSE t

\* Variant: point_moved checks the threshold in manual mode too.
dnd_point_moved_any_mode(s, n, pt, st) ==
  IF s.state = POSSIBLE
    THEN maybe_start_drag(s, n, pt, st)
    ELSE s

dnd_point_moved(s, n, pt, st) ==
  IF ~s.priv.manual_mode /\ s.state = POSSIBLE
    THEN maybe_start_drag(s, n, pt, st)
    ELSE s

\* Variant: the last point's end cancels only a manual-mode gesture.
dnd_point_ended_manual_only(s, n) ==
  IF s.state = POSSIBLE /\ n = 1 /\ s.priv.manual_mode
    THEN clutter_gesture_set_state(s, CANCELLED, "DndStart")
    ELSE s

dnd_point_ended(s, n) ==
  IF s.state = POSSIBLE /\ n = 1
    THEN clutter_gesture_set_state(s, CANCELLED, "DndStart")
    ELSE s

shell_dnd_start_gesture_get_point_begin_event(priv) ==
  priv.point_begin_event

shell_dnd_start_gesture_get_drag_triggering_event(priv) ==
  priv.drag_triggering_event

\* The instance as the record the operators above take.
DndSelf ==
  [state |-> state, priv |-> dnd_priv, transitions |-> << >>,
   copies |-> event_copies]

\* The step leaves the instance as the record s.
DndBecomes(s) ==
  /\ state' = s.state
  /\ dnd_priv' = s.priv
  /\ transitions' = s.transitions
  /\ event_copies' = s.copies

(***************************************************************************)
(* Steps of a ShellDndStartGesture instance.                               *)
(***************************************************************************)
UnchangedEdge == UNCHANGED <<edge_priv, sources, aborted>>

\* A sequence begins and the gesture accepts it: the framework registers the
\* point and calls point_began.  The first point is the one the callbacks
\* read; of a further point only its presence is read.
DndPointBegan ==
  /\ klass = "DndStart"
  /\ n_points < MaxPoints
  /\ n_points > 0 => Active
  /\ \E ev \in SequenceBeginEvents, c \in DndBeginCoords :
       /\ dnd_should_handle_sequence(ev)
       /\ n_points > 0 => c = point.begin_coords
       /\ LET pt == IF n_points = 0
                      THEN [begin_coords |-> c, coords |-> c, event |-> ev]
                      ELSE point
              s == dnd_point_began([DndSelf EXCEPT !.state = BeginState],
                                   n_points + 1, pt, settings)
          IN  /\ point' = pt
              /\ n_points' = n_points + 1
              /\ DndBecomes(s)
  /\ signals' = << >>
  /\ last_op' = "point_began"
  /\ UNCHANGED <<klass, settings>>
  /\ UnchangedEdge

\* A sequence begins that should_handle_sequence refuses: nothing is tracked.
DndSequenceRefused ==
  /\ klass = "DndStart"
  /\ \E ev \in SequenceBeginEvents : ~dnd_should_handle_sequence(ev)
  /\ signals' = << >>
  /\ UNCHANGED last_op
  /\ transitions' = << >>
  /\ UNCHANGED <<klass, state, n_points, point, dnd_priv, settings,
                 event_copies>>
  /\ UnchangedEdge

DndPointMoved ==
  /\ klass = "DndStart"
  /\ n_points = 1
  /\ Active
  /\ \E ev \in UpdateEvents(point.event), c \in DndCoords :
       LET pt == [point EXCEPT !.coords = c, !.event = ev]
           s == dnd_point_moved(DndSelf, n_points, pt, settings)
       IN  /\ point' = pt
           /\ DndBecomes(s)
  /\ signals' = << >>
  /\ last_op' = "point_moved"
  /\ UNCHANGED <<klass, n_points, settings>>
  /\ UnchangedEdge

\* A point ends: point_ended runs while the gesture is undecided, then the
\* framework drops the point.
DndPointEnded ==
  /\ klass = "DndStart"
  /\ n_points > 0
  /\ LET s == IF Active THEN dnd_point_ended(DndSelf, n_points) ELSE DndSelf
     IN  DndBecomes(s)
  /\ n_points' = n_points - 1
  /\ point' = IF n_points = 1 THEN NoPoint ELSE point
  /\ signals' = << >>
  /\ last_op' = IF Active THEN "point_ended" ELSE "point_dropped"
  /\ UNCHANGED <<klass, settings>>
  /\ UnchangedEdge

\* The owner calls shell_dnd_start_gesture_start_drag, with the point's
\* current event or with no event.
DndStartDrag ==
  /\ klass = "DndStart"
  /\ \E start_event \in {NULL} \cup (IF n_points > 0 THEN {point.event} ELSE {}) :
       LET s == shell_dnd_start_gesture_start_drag(DndSelf, n_points, start_event)
       IN  DndBecomes(s)
  /\ signals' = << >>
  /\ last_op' = "start_drag"
  /\ UNCHANGED <<klass, n_points, point, settings>>
  /\ UnchangedEdge

shell_dnd_start_gesture_set_manual_mode(priv, manual_mode) ==
  IF priv.manual_mode = manual_mode
    THEN [priv |-> priv, notify |-> << >>]
    ELSE [priv |-> [priv EXCEPT !.manual_mode = manual_mode],
          notify |-> << [signal |-> "notify::manual-mode"] >>]

DndSetManualMode ==
  /\ klass = "DndStart"
  /\ \E manual_mode \in BOOLEAN :
       LET r == shell_dnd_start_gesture_set_manual_mode(dnd_priv, manual_mode)
       IN  /\ dnd_priv' = r.priv
           /\ signals' = r.notify
  /\ transitions' = << >>
  /\ UNCHANGED last_op
  /\ UNCHANGED <<klass, state, n_points, point, settings, event_copies>>
  /\ UnchangedEdge

shell_dnd_start_gesture_set_timeout_threshold(priv, timeout_threshold_ms) ==
  IF priv.timeout_threshold_ms = timeout_threshold_ms
    THEN [priv |-> priv, notify |-> << >>]
    ELSE [priv |-> [priv EXCEPT !.timeout_threshold_ms = timeout_threshold_ms],
          notify |-> << [signal |-> "notify::timeout-threshold"] >>]

DndSetTimeoutThreshold ==
  /\ klass = "DndStart"
  /\ \E timeout_threshold_ms \in TimeoutThresholds :
       LET r == shell_dnd_start_gesture_set_timeout_threshold(
                  dnd_priv, timeout_threshold_ms)
       IN  /\ dnd_priv' = r.priv
           /\ signals' = r.notify
  /\ transitions' = << >>
  /\ UNCHANGED last_op
  /\ UNCHANGED <<klass, state, n_points, point, settings, event_copies>>
  /\ UnchangedEdge

DndNext ==
  \/ DndPointBegan
  \/ DndSequenceRefused
  \/ DndPointMoved
  \/ DndPointEnded
  \/ DndStartDrag
  \/ DndSetManualMode
  \/ DndSetTimeoutThreshold

(***************************************************************************)
(* ShellEdgeDragGesture.  One monitor holds every point; coordinates are   *)
(* whole pixels.  The operators work on a record                           *)
(* s = [state, priv, sources, signals, aborted].                           *)
(***************************************************************************)
Sides == {"ST_SIDE_TOP", "ST_SIDE_RIGHT", "ST_SIDE_BOTTOM", "ST_SIDE_LEFT"}

\* Values a caller may hand to set_side: the four sides and one outside them.
SideValues == Sides \cup {"OUT_OF_RANGE"}

\* get_monitor_for_coords: the geometry of the monitor that holds the point.
monitor_geometry == [x |-> 0, y |-> 0, width |-> 200, height |-> 200]

get_monitor_for_coords(coords) == monitor_geometry

\* Pixel values on either side of every comparison the recognizer makes, for
\* a begin at the very edge: the band, the distance needed and the overshoot.
SweepValues ==
  { 0, EDGE_THRESHOLD, DRAG_DISTANCE, DRAG_DISTANCE + 1,
    CANCEL_THRESHOLD, CANCEL_THRESHOLD + 1,
    monitor_geometry.width - DRAG_DISTANCE,
    monitor_geometry.width - EDGE_THRESHOLD,
    monitor_geometry.width - EDGE_THRESHOLD + 1 }

RestValues == { 0, monitor_geometry.width - EDGE_THRESHOLD + 1 }

BandValues ==
  { 0, EDGE_THRESHOLD,
    monitor_geometry.width - EDGE_THRESHOLD,
    monitor_geometry.width - EDGE_THRESHOLD + 1 }

\* Where EdgeDrag points move: one axis sweeps while the other rests in a band.
EdgeCoords == Coords(SweepValues, RestValues) \cup Coords(RestValues, SweepValues)

\* Where EdgeDrag points begin: inside and just outside each band.
EdgeBeginCoords == Coords(BandValues, RestValues) \cup Coords(RestValues, BandValues)

\* EdgeDrag reads no timestamp: its one clock is the cancel timer.
EdgeBeginEvents == { ev \in SequenceBeginEvents : ev.time = 0 /\ ev.button < 3 }

EdgeUpdateEvents(ev) == { e \in UpdateEvents(ev) : e.time = 0 }

\* Variant: the band takes in the pixel at the threshold itself.
is_near_monitor_edge_inclusive(pt, side) ==
  LET coords == pt.coords
      geometry == get_monitor_for_coords(coords)
  IN  CASE side = "ST_SIDE_LEFT" ->
             coords.x <= geometry.x + EDGE_THRESHOLD
        [] side = "ST_SIDE_RIGHT" ->
             coords.x >= geometry.x + geometry.width - EDGE_THRESHOLD
        [] side = "ST_SIDE_TOP" ->
             coords.y <= geometry.y + EDGE_THRESHOLD
        [] side = "ST_SIDE_BOTTOM" ->
             coords.y >= geometry.y + geometry.height - EDGE_THRESHOLD

is_near_monitor_edge(pt, side) ==
  LET coords == pt.coords
      geometry == get_monitor_for_coords(coords)
  IN  CASE side = "ST_SIDE_LEFT" ->
             coords.x < geometry.x + EDGE_THRESHOLD
        [] side = "ST_SIDE_RIGHT" ->
             coords.x > geometry.x + geometry.width - EDGE_THRESHOLD
        [] side = "ST_SIDE_TOP" ->
             coords.y < geometry.y + EDGE_THRESHOLD
        [] side = "ST_SIDE_BOTTOM" ->
             coords.y > geometry.y + geometry.height - EDGE_THRESHOLD

\* graphene_point_distance: the per-axis distances are absolute values.
distance_x(pt) == Abs(pt.coords.x - pt.begin_coords.x)
distance_y(pt) == Abs(pt.coords.y - pt.begin_coords.y)

\* Variant: the overshoot is measured along the other axis.
exceeds_cancel_threshold_other_axis(pt, side) ==
  CASE side \in {"ST_SIDE_LEFT", "ST_SIDE_RIGHT"} ->
         distance_y(pt) > CANCEL_THRESHOLD
    [] side \in {"ST_SIDE_TOP", "ST_SIDE_BOTTOM"} ->
         distance_x(pt) > CANCEL_THRESHOLD

exceeds_cancel_threshold(pt, side) ==
  CASE side \in {"ST_SIDE_LEFT", "ST_SIDE_RIGHT"} ->
         distance_x(pt) > CANCEL_THRESHOLD
    [] side \in {"ST_SIDE_TOP", "ST_SIDE_BOTTOM"} ->
         distance_y(pt) > CANCEL_THRESHOLD

\* Variant: the distance needed is taken to be the overshoot distance.
passes_cancel_distance(pt, side) ==
  LET geometry == get_monitor_for_coords(pt.begin_coords)
      latest_coords == pt.coords
  IN  CASE side = "ST_SIDE_LEFT" ->
             latest_coords.x > geometry.x + CANCEL_THRESHOLD
        [] side = "ST_SIDE_RIGHT" ->
             latest_coords.x < geometry.x + geometry.width - CANCEL_THRESHOLD
        [] side = "ST_SIDE_TOP" ->
             latest_coords.y > geometry.y + CANCEL_THRESHOLD
        [] side = "ST_SIDE_BOTTOM" ->
             latest_coords.y < geometry.y + geometry.height - CANCEL_THRESHOLD

passes_distance_needed(pt, side) ==
  LET geometry == get_monitor_for_coords(pt.begin_coords)
      latest_coords == pt.coords
  IN  CASE side = "ST_SIDE_LEFT" ->
             latest_coords.x > geometry.x + DRAG_DISTANCE
        [] side = "ST_SIDE_RIGHT" ->
             latest_coords.x < geometry.x + geometry.width - DRAG_DISTANCE
        [] side = "ST_SIDE_TOP" ->
             latest_coords.y > geometry.y + DRAG_DISTANCE
        [] side = "ST_SIDE_BOTTOM" ->
             latest_coords.y < geometry.y + geometry.height - DRAG_DISTANCE

edge_should_handle_sequence(sequence_begin_event) ==
  IF sequence_begin_event.type = "TOUCH_BEGIN" THEN TRUE ELSE FALSE

\* g_timeout_add schedules a source under an id no scheduled source has.
NewSourceId(srcs) ==
  CHOOSE id \in 1 .. (Cardinality(srcs) + 1) : id \notin srcs

\* Variant: the callback only clears its handle.
on_cancel_timeout_only_clears(s, pt) ==
  [s EXCEPT !.priv.cancel_timeout_id = 0]

\* Variant: the callback cancels wherever the point is.
on_cancel_timeout_always_cancels(s, pt) ==
  [clutter_gesture_set_state(s, CANCELLED, "EdgeDrag")
     EXCEPT !.priv.cancel_timeout_id = 0]

on_cancel_timeout(s, pt) ==
  LET t == IF is_near_monitor_edge(pt, s.priv.side)
             THEN clutter_gesture_set_state(s, CANCELLED, "EdgeDrag")
             ELSE s
  IN  [t EXCEPT !.priv.cancel_timeout_id = 0]

\* Variant: a second point is let in; only a third one cancels.
edge_point_began_third_cancels(s, n, pt, index) ==
  IF n > 2 \/ ~is_near_monitor_edge(pt, s.priv.side)
    THEN clutter_gesture_set_state(s, CANCELLED, "EdgeDrag")
    ELSE IF s.priv.cancel_timeout_id # 0
      THEN [s EXCEPT !.priv.cancel_timeout_point = index, !.aborted = TRUE]
      ELSE [s EXCEPT !.priv.cancel_timeout_point = index,
                     !.priv.cancel_timeout_id = NewSourceId(s.sources),
                     !.sources = @ \cup {NewSourceId(s.sources)}]

\* Variant: the timer is armed wherever the point begins.
edge_point_began_anywhere(s, n, pt, index) ==
  IF n > 1
    THEN clutter_gesture_set_state(s, CANCELLED, "EdgeDrag")
    ELSE IF s.priv.cancel_timeout_id # 0
      THEN [s EXCEPT !.priv.cancel_timeout_point = index, !.aborted = TRUE]
      ELSE [s EXCEPT !.priv.cancel_timeout_point = index,
                     !.priv.cancel_timeout_id = NewSourceId(s.sources),
                     !.sources = @ \cup {NewSourceId(s.sources)}]

\* Variant: the timer is armed before the point is looked at.
edge_point_began_arms_first(s, n, pt, index) ==
  LET t == IF s.priv.cancel_timeout_id # 0
             THEN [s EXCEPT !.priv.cancel_timeout_point = index,
                            !.aborted = TRUE]
             ELSE [s EXCEPT !.priv.cancel_timeout_point = index,
                            !.priv.cancel_timeout_id = NewSourceId(s.sources),
                            !.sources = @ \cup {NewSourceId(s.sources)}]
  IN  IF n > 1 \/ ~is_near_monitor_edge(pt, s.priv.side)
        THEN clutter_gesture_set_state(t, CANCELLED, "EdgeDrag")
        ELSE t

edge_point_began(s, n, pt, index) ==
  IF n > 1 \/ ~is_near_monitor_edge(pt, s.priv.side)
    THEN clutter_gesture_set_state(s, CANCELLED, "EdgeDrag")
    ELSE IF s.priv.cancel_timeout_id # 0
      THEN [s EXCEPT !.priv.cancel_timeout_point = index, !.aborted = TRUE]
      ELSE [s EXCEPT !.priv.cancel_timeout_point = index,
                     !.priv.cancel_timeout_id = NewSourceId(s.sources),
                     !.sources = @ \cup {NewSourceId(s.sources)}]

\* Variant: the progress is always the distance along x.
progress_along_x(pt, side) == distance_x(pt)

\* The value the progress signal carries for the configured side.
ProgressValue(pt, side) ==
  CASE side \in {"ST_SIDE_LEFT", "ST_SIDE_RIGHT"} -> distance_x(pt)
    [] side \in {"ST_SIDE_TOP", "ST_SIDE_BOTTOM"} -> distance_y(pt)

\* The emission is recorded with the state the gesture is in when it is made.
EmitProgress(s, pt) ==
  [s EXCEPT !.signals =
     Append(@, [signal |-> "progress",
                value |-> ProgressValue(pt, s.priv.side),
                state |-> s.state])]

\* Variant: the overshoot is looked at after the progress and the completion.
edge_point_moved_overshoot_last(s, pt) ==
  LET t == IF /\ s.state = POSSIBLE
              /\ ~is_near_monitor_edge(pt, s.priv.side)
             THEN clutter_gesture_set_state(s, RECOGNIZING, "EdgeDrag")
             ELSE s
      u == IF t.state = RECOGNIZING
             THEN IF passes_distance_needed(pt, t.priv.side)
                    THEN clutter_gesture_set_state(EmitProgress(t, pt),
                                                   COMPLETED,
                                                   "EdgeDrag")
                    ELSE EmitProgress(t, pt)
             ELSE t
  IN  IF exceeds_cancel_threshold(pt, s.priv.side)
        THEN clutter_gesture_set_state(u, CANCELLED, "EdgeDrag")
        ELSE u

\* Variant: the progress of the completing move is emitted after completion.
edge_point_moved_progress_after(s, pt) ==
  IF exceeds_cancel_threshold(pt, s.priv.side)
    THEN clutter_gesture_set_state(s, CANCELLED, "EdgeDrag")
    ELSE LET t == IF /\ s.state = POSSIBLE
                     /\ ~is_near_monitor_edge(pt, s.priv.side)
                    THEN clutter_gesture_set_state(s, RECOGNIZING,
                                                   "EdgeDrag")
                    ELSE s
         IN  IF t.state = RECOGNIZING
               THEN IF passes_distance_needed(pt, t.priv.side)
                      THEN EmitProgress(
                             clutter_gesture_set_state(t, COMPLETED, "EdgeDrag"),
                             pt)
                      ELSE EmitProgress(t, pt)
               ELSE t

\* Variant: a move past the distance needed completes a Possible gesture
\* without making it Recognizing first.
edge_point_moved_completes_directly(s, pt) ==
  IF exceeds_cancel_threshold(pt, s.priv.side)
    THEN clutter_gesture_set_state(s, CANCELLED, "EdgeDrag")
    ELSE IF s.state = POSSIBLE /\ passes_distance_needed(pt, s.priv.side)
      THEN clutter_gesture_set_state(s, COMPLETED, "EdgeDrag")
      ELSE LET t == IF /\ s.state = POSSIBLE
                       /\ ~is_near_monitor_edge(pt, s.priv.side)
                      THEN clutter_gesture_set_state(s, RECOGNIZING,
                                                     "EdgeDrag")
                      ELSE s
           IN  IF t.state = RECOGNIZING
                 THEN IF passes_distance_needed(pt, t.priv.side)
                        THEN clutter_gesture_set_state(EmitProgress(t, pt),
                                                       COMPLETED,
                                                       "EdgeDrag")
                        ELSE EmitProgress(t, pt)
                 ELSE t

\* Variant: the progress is emitted whatever the state.
edge_point_moved_always_reports(s, pt) ==
  IF exceeds_cancel_threshold(pt, s.priv.side)
    THEN clutter_gesture_set_state(s, CANCELLED, "EdgeDrag")
    ELSE LET t == IF /\ s.state = POSSIBLE
                     /\ ~is_near_monitor_edge(pt, s.priv.side)
                    THEN clutter_gesture_set_state(s, RECOGNIZING,
                                                   "EdgeDrag")
                    ELSE s
         IN  IF passes_distance_needed(pt, t.priv.side)
               THEN clutter_gesture_set_state(EmitProgress(t, pt),
                                              COMPLETED,
                                              "EdgeDrag")
               ELSE EmitProgress(t, pt)

edge_point_moved(s, pt) ==
  IF exceeds_cancel_threshold(pt, s.priv.side)
    THEN clutter_gesture_set_state(s, CANCELLED, "EdgeDrag")
    ELSE LET t == IF /\ s.state = POSSIBLE
                     /\ ~is_near_monitor_edge(pt, s.priv.side)
                    THEN clutter_gesture_set_state(s, RECOGNIZING,
                                                   "EdgeDrag")
                    ELSE s
         IN  IF t.state = RECOGNIZING
               THEN IF passes_distance_needed(pt, t.priv.side)
                      THEN clutter_gesture_set_state(EmitProgress(t, pt),
                                                     COMPLETED,
                                                     "EdgeDrag")
                      ELSE EmitProgress(t, pt)
               ELSE t

\* Variant: the end of the point cancels only a gesture that is Possible.
edge_point_ended_possible_only(s) ==
  IF s.state = POSSIBLE
    THEN clutter_gesture_set_state(s, CANCELLED, "EdgeDrag")
    ELSE s

edge_point_ended(s) ==
  clutter_gesture_set_state(s, CANCELLED, "EdgeDrag")

\* Variant: the side is stored without the range check.
set_side_unchecked(s, side) ==
  [s EXCEPT !.priv.side = side,
            !.signals = Append(@, [signal |-> "notify::side"])]

shell_edge_drag_gesture_set_side(s, side) ==
  IF side \notin Sides
    THEN s
    ELSE [s EXCEPT !.priv.side = side,
                   !.signals = Append(@, [signal |-> "notify::side"])]

\* The instance as the record the operators above take, before it has emitted
\* anything in this step.
EdgeSelf ==
  [state |-> state, priv |-> edge_priv, sources |-> sources,
   signals |-> << >>, transitions |-> << >>, aborted |-> aborted]

\* The step leaves the instance as the record s.
EdgeBecomes(s) ==
  /\ state' = s.state
  /\ edge_priv' = s.priv
  /\ sources' = s.sources
  /\ signals' = s.signals
  /\ transitions' = s.transitions
  /\ aborted' = s.aborted

(***************************************************************************)
(* Steps of a ShellEdgeDragGesture instance.                               *)
(***************************************************************************)
UnchangedDnd == UNCHANGED <<dnd_priv, settings, event_copies>>

EdgePointBegan ==
  /\ klass = "EdgeDrag"
  /\ ~aborted
  /\ n_points < MaxPoints
  /\ n_points > 0 => Active
  /\ \E ev \in EdgeBeginEvents, c \in EdgeBeginCoords :
       /\ edge_should_handle_sequence(ev)
       /\ n_points > 0 => c = point.begin_coords
       /\ LET pt == IF n_points = 0
                      THEN [begin_coords |-> c, coords |-> c, event |-> ev]
                      ELSE point
          IN  /\ point' = pt
              /\ EdgeBecomes(edge_point_began(
                   [EdgeSelf EXCEPT !.state = BeginState], n_points + 1, pt, 0))
  /\ n_points' = n_points + 1
  /\ last_op' = "point_began"
  /\ UNCHANGED klass
  /\ UnchangedDnd

EdgeSequenceRefused ==
  /\ klass = "EdgeDrag"
  /\ ~aborted
  /\ \E ev \in EdgeBeginEvents : ~edge_should_handle_sequence(ev)
  /\ signals' = << >>
  /\ transitions' = << >>
  /\ UNCHANGED <<klass, state, n_points, point, edge_priv, sources, last_op,
                 aborted>>
  /\ UnchangedDnd

EdgePointMoved ==
  /\ klass = "EdgeDrag"
  /\ ~aborted
  /\ n_points = 1
  /\ Active
  /\ \E ev \in EdgeUpdateEvents(point.event), c \in EdgeCoords :
       LET pt == [point EXCEPT !.coords = c, !.event = ev]
       IN  /\ point' = pt
           /\ EdgeBecomes(edge_point_moved(EdgeSelf, pt))
  /\ last_op' = "point_moved"
  /\ UNCHANGED <<klass, n_points>>
  /\ UnchangedDnd

EdgePointEnded ==
  /\ klass = "EdgeDrag"
  /\ ~aborted
  /\ n_points > 0
  /\ EdgeBecomes(IF Active THEN edge_point_ended(EdgeSelf) ELSE EdgeSelf)
  /\ n_points' = n_points - 1
  /\ point' = IF n_points = 1 THEN NoPoint ELSE point
  /\ last_op' = IF Active THEN "point_ended" ELSE "point_dropped"
  /\ UNCHANGED klass
  /\ UnchangedDnd

\* The main loop dispatches a scheduled timeout source; the callback returns
\* G_SOURCE_REMOVE, which destroys the source.
EdgeCancelTimeout ==
  /\ klass = "EdgeDrag"
  /\ ~aborted
  /\ \E id \in sources :
       LET s == on_cancel_timeout(EdgeSelf, point)
       IN  EdgeBecomes([s EXCEPT !.sources = @ \ {id}])
  /\ last_op' = "on_cancel_timeout"
  /\ UNCHANGED <<klass, n_points, point>>
  /\ UnchangedDnd

EdgeSetSide ==
  /\ klass = "EdgeDrag"
  /\ ~aborted
  /\ \E side \in SideValues :
       EdgeBecomes(shell_edge_drag_gesture_set_side(EdgeSelf, side))
  /\ UNCHANGED <<klass, n_points, point, last_op>>
  /\ UnchangedDnd

EdgeNext ==
  \/ EdgePointBegan
  \/ EdgeSequenceRefused
  \/ EdgePointMoved
  \/ EdgePointEnded
  \/ EdgeCancelTimeout
  \/ EdgeSetSide

(***************************************************************************)
(* Initial state: a constructed instance of either class, no point active. *)
(***************************************************************************)
\* shell_dnd_start_gesture_init leaves the private struct zeroed; the
\* construct-time properties may then set manual-mode and timeout-threshold.
shell_dnd_start_gesture_init ==
  [drag_threshold_ignored |-> FALSE,
   point_begin_event |-> NULL,
   drag_triggering_event |-> NULL,
   manual_mode |-> FALSE,
   timeout_threshold_ms |-> 0]

\* shell_edge_drag_gesture_init sets the side to Top; the construct-time
\* property may then set another side.
shell_edge_drag_gesture_init ==
  [side |-> "ST_SIDE_TOP",
   cancel_timeout_point |-> 0,
   cancel_timeout_id |-> 0]

InitOf(k, thresholds, factors) ==
  /\ klass = k
  /\ state = POSSIBLE
  /\ n_points = 0
  /\ point = NoPoint
  /\ \E manual_mode \in BOOLEAN, timeout_threshold_ms \in TimeoutThresholds :
       dnd_priv =
         IF k = "DndStart"
           THEN shell_dnd_start_gesture_set_timeout_threshold(
                  shell_dnd_start_gesture_set_manual_mode(
                    shell_dnd_start_gesture_init, manual_mode).priv,
                  timeout_threshold_ms).priv
           ELSE shell_dnd_start_gesture_init
  /\ \E side \in Sides :
       edge_priv =
         IF k = "EdgeDrag"
           THEN [shell_edge_drag_gesture_init EXCEPT !.side = side]
           ELSE shell_edge_drag_gesture_init
  /\ sources = {}
  /\ settings \in [drag_threshold : thresholds, scale_factor : factors]
  /\ signals = << >>
  /\ transitions = << >>
  /\ event_copies = [live |-> {}, invalid_free |-> FALSE]
  /\ last_op = "init"
  /\ aborted = FALSE

InitDnd == InitOf("DndStart", DragThresholds, ScaleFactors)

\* EdgeDrag reads no setting: one value of each is enough.
InitEdge == InitOf("EdgeDrag", {1}, {1})

Init == InitDnd \/ InitEdge

Next == DndNext \/ EdgeNext

SpecDnd == InitDnd /\ [][DndNext]_vars

SpecEdge == InitEdge /\ [][EdgeNext]_vars

Spec == Init /\ [][Next]_vars

\* The cancel timer runs once it is due: the main loop dispatches it.
SpecEdgeFair == SpecEdge /\ WF_vars(EdgeCancelTimeout)

(***************************************************************************)
(* Properties of ShellDndStartGesture.                                     *)
(***************************************************************************)
IsTouch(event) == event.device = "TOUCHSCREEN_DEVICE"

\* A point_moved step of an undecided gesture in automatic mode.
DndAutoMove ==
  /\ DndPointMoved
  /\ ~dnd_priv.manual_mode
  /\ state = POSSIBLE

\* Elapsed time of the event the step delivers, since point-began.
EllapsedNext == EllapsedTime(point'.event, dnd_priv.point_begin_event)

\* C1 as stated: in automatic mode a touch move beyond the scaled threshold
\* with elapsed time below the timeout leaves the gesture Possible, and a later
\* move of that point, still beyond the threshold, with elapsed time above the
\* timeout completes the gesture (the point's previous event being such an
\* early move beyond the threshold).
C1_LaterCheckCompletes ==
  [][ /\ ( /\ DndAutoMove
           /\ IsTouch(point'.event)
           /\ ExceedsDragThreshold(point', settings)
           /\ ~dnd_priv.drag_threshold_ignored
           /\ EllapsedNext < dnd_priv.timeout_threshold_ms )
         => state' = POSSIBLE
      /\ ( /\ DndAutoMove
           /\ IsTouch(point'.event)
           /\ ExceedsDragThreshold(point', settings)
           /\ dnd_priv.drag_threshold_ignored
           /\ ExceedsDragThreshold(point, settings)
           /\ EllapsedTime(point.event, dnd_priv.point_begin_event)
                < dnd_priv.timeout_threshold_ms
           /\ EllapsedNext > dnd_priv.timeout_threshold_ms )
         => state' = COMPLETED ]_vars

\* C1 amended: in automatic mode a touch move beyond the scaled threshold with
\* elapsed time below the timeout leaves the gesture Possible and sets
\* drag_threshold_ignored; every later move of that point, whatever its
\* displacement and elapsed time, leaves the gesture Possible with the flag set.
C1_LaterCheckIgnored ==
  [][ ( /\ DndAutoMove
        /\ IsTouch(point'.event)
        /\ ExceedsDragThreshold(point', settings)
        /\ \/ dnd_priv.drag_threshold_ignored
           \/ EllapsedNext < dnd_priv.timeout_threshold_ms )
      => /\ state' = POSSIBLE
         /\ dnd_priv'.drag_threshold_ignored ]_vars

\* A touch move beyond the threshold, later than the timeout, has been handled
\* in automatic mode and the gesture is still Possible.
C1_Witness ==
  /\ klass = "DndStart"
  /\ last_op = "point_moved"
  /\ state = POSSIBLE
  /\ ~dnd_priv.manual_mode
  /\ dnd_priv.drag_threshold_ignored
  /\ IsTouch(point.event)
  /\ ExceedsDragThreshold(point, settings)
  /\ EllapsedTime(point.event, dnd_priv.point_begin_event) > MaxTimeout

\* C2: in manual mode no point_began and no point_moved callback completes the
\* gesture, and every step that completes it is a start_drag call of the owner.
C2_ManualOnlyStartDrag ==
  [][ /\ ((DndPointBegan \/ DndPointMoved) /\ dnd_priv.manual_mode)
         => state' # COMPLETED
      /\ (dnd_priv.manual_mode /\ state # COMPLETED /\ state' = COMPLETED)
         => DndStartDrag ]_vars

\* In manual mode a pointer move beyond the threshold left the gesture Possible.
C2_Witness ==
  /\ klass = "DndStart"
  /\ last_op = "point_moved"
  /\ dnd_priv.manual_mode
  /\ state = POSSIBLE
  /\ is_pointer_or_touchpad(point.event)
  /\ ExceedsDragThreshold(point, settings)

\* C3: a start_drag call made with exactly one active point in state Possible
\* leaves the gesture Completed, in either mode, with or without an event.
C3_StartDragCompletes ==
  [][ (DndStartDrag /\ n_points = 1 /\ state = POSSIBLE)
      => state' = COMPLETED ]_vars

\* The owner's start_drag completed a manual-mode gesture with one point.
C3_Witness ==
  /\ klass = "DndStart"
  /\ last_op = "start_drag"
  /\ state = COMPLETED
  /\ n_points = 1
  /\ dnd_priv.manual_mode

\* C4: in automatic mode a move of a pointer or touchpad point beyond the
\* scaled threshold on either axis completes the gesture, whatever the elapsed
\* time and the timeout threshold.
C4_PointerCompletesAtOnce ==
  [][ ( /\ DndAutoMove
        /\ point'.event.device \in {"POINTER_DEVICE", "TOUCHPAD_DEVICE"}
        /\ ExceedsDragThreshold(point', settings) )
      => state' = COMPLETED ]_vars

\* A touchpad move at the time of point-began, below the largest timeout,
\* completed the gesture.
C4_Witness ==
  /\ klass = "DndStart"
  /\ last_op = "point_moved"
  /\ state = COMPLETED
  /\ point.event.device = "TOUCHPAD_DEVICE"
  /\ point.event.time = 0
  /\ dnd_priv.timeout_threshold_ms = MaxTimeout
  /\ ExceedsDragThreshold(point, settings)

\* C5: a point_began callback for a second point, delivered while the first is
\* active, leaves the gesture of either recognizer Cancelled.
C5_SecondPointCancels ==
  [][ ((DndPointBegan \/ EdgePointBegan) /\ n_points >= 1)
      => state' = CANCELLED ]_vars

\* A second point has just cancelled an edge drag that was being recognized.
C5_Witness ==
  /\ klass = "EdgeDrag"
  /\ last_op = "point_began"
  /\ n_points = 2
  /\ state = CANCELLED
  /\ ~is_near_monitor_edge(point, edge_priv.side)

(***************************************************************************)
(* Properties of ShellEdgeDragGesture.                                     *)
(***************************************************************************)
\* How far inside the monitor, from the edge of the side, the coordinates lie.
DistanceFromEdge(coords, side) ==
  LET geometry == get_monitor_for_coords(coords)
  IN  CASE side = "ST_SIDE_LEFT" -> coords.x - geometry.x
        [] side = "ST_SIDE_RIGHT" -> geometry.x + geometry.width - coords.x
        [] side = "ST_SIDE_TOP" -> coords.y - geometry.y
        [] side = "ST_SIDE_BOTTOM" -> geometry.y + geometry.height - coords.y

\* How far the point has moved away from the edge of the side since it began.
InwardDistance(pt, side) ==
  DistanceFromEdge(pt.coords, side) - DistanceFromEdge(pt.begin_coords, side)

\* The step emits progress, and the last value it emits is at least v.
LastProgressAtLeast(v) ==
  /\ Len(signals') >= 1
  /\ signals'[Len(signals')].signal = "progress"
  /\ signals'[Len(signals')].value >= v

\* A move of a touch that began within the band of the side, by the distance
\* needed or more, less than the overshoot distance away from its begin.
InwardDragMove ==
  /\ EdgePointMoved
  /\ DistanceFromEdge(point'.begin_coords, edge_priv.side) <= EDGE_THRESHOLD
  /\ InwardDistance(point', edge_priv.side) >= DRAG_DISTANCE
  /\ distance_x(point') < CANCEL_THRESHOLD
  /\ distance_y(point') < CANCEL_THRESHOLD

\* C6 as stated: a touch that began within 20 px of the edge and has moved
\* inward by 80 px or more, never 100 px or more away from its begin, is
\* Completed by that move, which emits progress of at least 80.
C6_InwardDragCompletes ==
  [][ InwardDragMove
      => (state' = COMPLETED /\ LastProgressAtLeast(DRAG_DISTANCE)) ]_vars

\* C6 amended: such a move completes the gesture, and emits progress of at
\* least 80, when it takes the point strictly more than 80 px away from the
\* edge of the monitor.
C6_InwardDragPastDistanceCompletes ==
  [][ ( /\ InwardDragMove
        /\ DistanceFromEdge(point'.coords, edge_priv.side) > DRAG_DISTANCE )
      => (state' = COMPLETED /\ LastProgressAtLeast(DRAG_DISTANCE)) ]_vars

\* A drag from the bottom edge has just completed with progress of 80 or more.
C6_Witness ==
  /\ klass = "EdgeDrag"
  /\ last_op = "point_moved"
  /\ state = COMPLETED
  /\ edge_priv.side = "ST_SIDE_BOTTOM"
  /\ DistanceFromEdge(point.begin_coords, edge_priv.side) <= EDGE_THRESHOLD
  /\ InwardDistance(point, edge_priv.side) >= DRAG_DISTANCE
  /\ distance_y(point) < CANCEL_THRESHOLD
  /\ signals = << [signal |-> "progress", value |-> distance_y(point),
                   state |-> RECOGNIZING] >>

\* C7: a first touch that begins more than 20 px away from the edge of the
\* configured side is Cancelled by point_began, and no cancel timer is armed.
C7_FarBeginCancels ==
  [][ ( /\ EdgePointBegan
        /\ n_points = 0
        /\ DistanceFromEdge(point'.begin_coords, edge_priv.side) > EDGE_THRESHOLD )
      => ( /\ state' = CANCELLED
           /\ edge_priv'.cancel_timeout_id = 0
           /\ sources' = {} ) ]_vars

\* A touch that began far from the right edge has just been cancelled.
C7_Witness ==
  /\ klass = "EdgeDrag"
  /\ last_op = "point_began"
  /\ n_points = 1
  /\ state = CANCELLED
  /\ edge_priv.side = "ST_SIDE_RIGHT"
  /\ DistanceFromEdge(point.begin_coords, edge_priv.side) > EDGE_THRESHOLD
  /\ edge_priv.cancel_timeout_id = 0
  /\ sources = {}

\* C8: a move that takes the point more than 100 px away from its begin along
\* the axis of the side leaves the gesture Cancelled and emits no progress,
\* also when the move satisfies the distance needed.
C8_OvershootCancels ==
  [][ (EdgePointMoved /\ exceeds_cancel_threshold(point', edge_priv.side))
      => (state' = CANCELLED /\ signals' = << >>) ]_vars

\* A move that overshoots and passes the distance needed has just cancelled.
C8_Witness ==
  /\ klass = "EdgeDrag"
  /\ last_op = "point_moved"
  /\ state = CANCELLED
  /\ signals = << >>
  /\ n_points = 1
  /\ exceeds_cancel_threshold(point, edge_priv.side)
  /\ passes_distance_needed(point, edge_priv.side)

\* A single touch that has received no move and rests in the band of the side,
\* its cancel timer still pending.
IdleInBand ==
  /\ klass = "EdgeDrag"
  /\ n_points = 1
  /\ state = POSSIBLE
  /\ point.event.type = "TOUCH_BEGIN"
  /\ is_near_monitor_edge(point, edge_priv.side)
  /\ edge_priv.cancel_timeout_id # 0

ReportedProgress ==
  /\ Len(signals) = 1
  /\ signals[1].signal = "progress"

\* C10 as stated: once a move has taken the touch out of the band (the gesture
\* is Recognizing), the firing of the cancel timer leaves the state unchanged.
C10_TimerSparesTouchThatLeft ==
  [][ (EdgeCancelTimeout /\ state = RECOGNIZING /\ ReportedProgress)
      => state' = state ]_vars

\* C10 amended: the firing of the cancel timer leaves the state unchanged, and
\* clears the timer, when the touch is outside the band at that moment; a touch
\* that left the band and is back in it is cancelled.
C10_TimerSparesTouchOutsideBand ==
  [][ EdgeCancelTimeout
      => /\ ~is_near_monitor_edge(point, edge_priv.side) => state' = state
         /\ (state = RECOGNIZING /\ is_near_monitor_edge(point, edge_priv.side))
              => state' = CANCELLED
         /\ edge_priv'.cancel_timeout_id = 0
         /\ sources' = {} ]_vars

\* The timer has fired for a touch outside the band and left it Recognizing.
C10_Witness ==
  /\ klass = "EdgeDrag"
  /\ last_op = "on_cancel_timeout"
  /\ state = RECOGNIZING
  /\ ~is_near_monitor_edge(point, edge_priv.side)
  /\ edge_priv.cancel_timeout_id = 0
  /\ sources = {}

(***************************************************************************)
(* Further properties of ShellDndStartGesture.                             *)
(***************************************************************************)
Terminal == state \in {CANCELLED, COMPLETED}

\* C11: whenever a ShellDndStartGesture is Cancelled or Completed, both event
\* copies are null: get_point_begin_event and get_drag_triggering_event return
\* null.
C11_TerminalHasNoEvents ==
  (klass = "DndStart" /\ Terminal)
    => /\ shell_dnd_start_gesture_get_point_begin_event(dnd_priv) = NULL
       /\ shell_dnd_start_gesture_get_drag_triggering_event(dnd_priv) = NULL

\* A touch move has just completed the gesture in automatic mode: the begin
\* event and the triggering event it had stored are gone.
C11_Witness ==
  /\ klass = "DndStart"
  /\ last_op = "point_moved"
  /\ state = COMPLETED
  /\ IsTouch(point.event)
  /\ dnd_priv.point_begin_event = NULL
  /\ dnd_priv.drag_triggering_event = NULL

\* C15: a start_drag call made with no or with more than one active point, or
\* in a state other than Possible, changes neither the state nor any field of
\* the instance, the two event copies included.
C15_StartDragNoOp ==
  [][ (DndStartDrag /\ ~(n_points = 1 /\ state = POSSIBLE))
      => (state' = state /\ dnd_priv' = dnd_priv) ]_vars

\* start_drag has been called on a Completed gesture whose point is still
\* active, and the triggering event is still null.
C15_Witness ==
  /\ klass = "DndStart"
  /\ last_op = "start_drag"
  /\ n_points = 1
  /\ state = COMPLETED
  /\ point.event.type = "MOTION"
  /\ dnd_priv.drag_triggering_event = NULL

IsPrimaryPressOrTouchBegin(event) ==
  \/ event.type = "TOUCH_BEGIN"
  \/ event.type = "BUTTON_PRESS" /\ event.button = 1

\* C17 as stated: should_handle_sequence accepts a primary-button press or a
\* touch begin and nothing else: every sequence whose point is tracked began
\* with one of the two.
C17_OnlyPrimaryPressOrTouch ==
  [][ (DndPointBegan /\ n_points = 0)
      => IsPrimaryPressOrTouchBegin(point'.event) ]_vars

\* C17 amended: should_handle_sequence accepts exactly the button presses, of
\* any button, and the touch begins: every sequence whose point is tracked
\* began with one of the two.
C17_AnyPressOrTouch ==
  /\ \A ev \in SequenceBeginEvents :
       dnd_should_handle_sequence(ev)
         <=> ev.type \in {"BUTTON_PRESS", "TOUCH_BEGIN"}
  /\ [][ (DndPointBegan /\ n_points = 0)
         => point'.event.type \in {"BUTTON_PRESS", "TOUCH_BEGIN"} ]_vars

\* The press of a non-primary button has begun a sequence.
C17_Witness ==
  /\ klass = "DndStart"
  /\ last_op = "point_began"
  /\ n_points = 1
  /\ state = POSSIBLE
  /\ point.event.type = "BUTTON_PRESS"
  /\ point.event.button = 3

\* Largest displacement of the point on either axis since it began.
Displacement(pt) ==
  LET dx == Abs(pt.coords.x - pt.begin_coords.x)
      dy == Abs(pt.coords.y - pt.begin_coords.y)
  IN  IF dx > dy THEN dx ELSE dy

\* C18: in automatic mode a step other than a start_drag call of the owner
\* completes the gesture only when it is a point_moved (or point_began)
\* callback whose point lies strictly beyond the scaled threshold on some axis
\* and is either of a pointer or touchpad or strictly later than the timeout
\* since point-began; a displacement equal to the threshold, or a touch at an
\* elapsed time equal to the timeout, does not complete it.
C18_CompletesOnlyPastThreshold ==
  [][ /\ ( /\ klass = "DndStart"
           /\ ~dnd_priv.manual_mode
           /\ state # COMPLETED
           /\ state' = COMPLETED
           /\ ~DndStartDrag )
         => /\ DndPointMoved
            /\ Displacement(point') > settings.drag_threshold * settings.scale_factor
            /\ \/ point'.event.device \in {"POINTER_DEVICE", "TOUCHPAD_DEVICE"}
               \/ point'.event.time - dnd_priv.point_begin_event.time
                    > dnd_priv.timeout_threshold_ms
      /\ ( /\ DndPointBegan \/ DndPointMoved
           /\ ~dnd_priv'.manual_mode
           /\ \/ Displacement(point')
                   = settings.drag_threshold * settings.scale_factor
              \/ /\ IsTouch(point'.event)
                 /\ n_points = 1
                 /\ point'.event.time - dnd_priv.point_begin_event.time
                      = dnd_priv.timeout_threshold_ms )
         => state' # COMPLETED ]_vars

\* A touch move beyond the threshold, at an elapsed time equal to a non-zero
\* timeout, has been handled in automatic mode and the gesture is not Completed.
C18_Witness ==
  /\ klass = "DndStart"
  /\ last_op = "point_moved"
  /\ ~dnd_priv.manual_mode
  /\ state = POSSIBLE
  /\ IsTouch(point.event)
  /\ Displacement(point) > settings.drag_threshold * settings.scale_factor
  /\ dnd_priv.timeout_threshold_ms > 0
  /\ point.event.time - dnd_priv.point_begin_event.time
       = dnd_priv.timeout_threshold_ms

\* C19: while drag_threshold_ignored is set, a point_moved callback changes
\* neither the state nor any field of the instance, whatever the displacement
\* and the elapsed time of the move; and a step that takes such a gesture out
\* of Possible during its sequence is a start_drag call, the begin of a second
\* point or the end of the point.
C19_IgnoredCheckIsNoOp ==
  [][ /\ (DndPointMoved /\ dnd_priv.drag_threshold_ignored)
         => (state' = state /\ dnd_priv' = dnd_priv)
      /\ ( /\ klass = "DndStart"
           /\ dnd_priv.drag_threshold_ignored
           /\ n_points >= 1
           /\ state = POSSIBLE
           /\ state' # POSSIBLE )
         => (DndStartDrag \/ DndPointBegan \/ DndPointEnded) ]_vars

\* With the flag set, a move has taken the touch back within the threshold,
\* later than the timeout, and the gesture is still Possible.
C19_Witness ==
  /\ klass = "DndStart"
  /\ last_op = "point_moved"
  /\ n_points = 1
  /\ state = POSSIBLE
  /\ ~dnd_priv.manual_mode
  /\ dnd_priv.drag_threshold_ignored
  /\ ~ExceedsDragThreshold(point, settings)
  /\ EllapsedTime(point.event, dnd_priv.point_begin_event)
       > dnd_priv.timeout_threshold_ms

\* C20: the end of the last active point of a Possible gesture leaves it
\* Cancelled, so that the gesture is Cancelled or Completed, never Possible,
\* once the point of a single-point sequence has ended.
C20_LastPointEndTerminates ==
  [][ (DndPointEnded /\ n_points = 1)
      => /\ state = POSSIBLE => state' = CANCELLED
         /\ state' \in {CANCELLED, COMPLETED} ]_vars

\* In automatic mode a point that never went beyond the threshold has ended,
\* and the gesture is Cancelled.
C20_Witness ==
  /\ klass = "DndStart"
  /\ last_op = "point_ended"
  /\ n_points = 0
  /\ state = CANCELLED
  /\ ~dnd_priv.manual_mode
  /\ ~dnd_priv.drag_threshold_ignored

(***************************************************************************)
(* Further properties of ShellEdgeDragGesture.                             *)
(***************************************************************************)
\* C12: in every state of a ShellEdgeDragGesture at most one cancel timer is
\* scheduled, cancel_timeout_id is non-zero exactly when one is scheduled (and
\* is then its id), and none is scheduled while the gesture is Cancelled or
\* Completed.
C12_OneTimerNoneWhenTerminal ==
  klass = "EdgeDrag"
    => /\ Cardinality(sources) <= 1
       /\ edge_priv.cancel_timeout_id # 0 <=> sources # {}
       /\ edge_priv.cancel_timeout_id # 0
            => sources = {edge_priv.cancel_timeout_id}
       /\ Terminal => sources = {}

\* A drag has just completed while its cancel timer was still to fire for the
\* moved point's sequence, and no timer is left.
C12_Witness ==
  /\ klass = "EdgeDrag"
  /\ last_op = "point_moved"
  /\ state = COMPLETED
  /\ n_points = 1
  /\ edge_priv.cancel_timeout_id = 0
  /\ sources = {}

\* C13: point_ended delivered while the gesture is Possible or Recognizing
\* leaves it Cancelled, with the cancel timer cleared.
C13_PointEndedCancels ==
  [][ (EdgePointEnded /\ Active)
      => /\ state' = CANCELLED
         /\ edge_priv'.cancel_timeout_id = 0
         /\ sources' = {} ]_vars

\* The touch has just ended in a gesture that point_ended found undecided.
C13_Witness ==
  /\ klass = "EdgeDrag"
  /\ last_op = "point_ended"
  /\ n_points = 0
  /\ state = CANCELLED
  /\ edge_priv.cancel_timeout_id = 0
  /\ sources = {}

\* The progress notifications among the signals sig.
ProgressIn(sig) ==
  { i \in 1 .. Len(sig) : sig[i].signal = "progress" }

\* C14: every progress notification is emitted by point_moved while the state
\* is Recognizing, so before the transition to Completed of a move that
\* completes; a step taken in Cancelled or Completed emits none, and neither
\* does a move that leaves the gesture Possible.
C14_ProgressWhileRecognizing ==
  [][ /\ \A i \in ProgressIn(signals') :
           /\ signals'[i].state = RECOGNIZING
           /\ EdgePointMoved
      /\ (Terminal \/ state' = POSSIBLE) => ProgressIn(signals') = {} ]_vars

\* The move that completed a drag from the left edge emitted its progress
\* while the gesture was Recognizing.
C14_Witness ==
  /\ klass = "EdgeDrag"
  /\ last_op = "point_moved"
  /\ state = COMPLETED
  /\ edge_priv.side = "ST_SIDE_LEFT"
  /\ Len(signals) = 1
  /\ signals[1].signal = "progress"
  /\ signals[1].state = RECOGNIZING

\* C16: set_side called with a value outside the four sides leaves the
\* instance as it is and emits nothing; called with one of the four sides it
\* stores that side.
C16_SetSideRejectsOutOfRange ==
  /\ [](klass = "EdgeDrag"
          => \A side \in SideValues :
               LET s == shell_edge_drag_gesture_set_side(EdgeSelf, side)
               IN  /\ side \notin Sides => s = EdgeSelf
                   /\ side \in Sides => s.priv.side = side)
  /\ [][ EdgeSetSide
         => /\ edge_priv'.side \in Sides
            /\ signals' = << >> => edge_priv' = edge_priv ]_vars

\* set_side has just stored the left side under a touch being recognized.
C16_Witness ==
  /\ klass = "EdgeDrag"
  /\ state = RECOGNIZING
  /\ n_points = 1
  /\ edge_priv.side = "ST_SIDE_LEFT"
  /\ signals = << [signal |-> "notify::side"] >>

(***************************************************************************)
(* Properties of the state transitions, the progress values and the event  *)
(* copies.                                                                 *)
(***************************************************************************)
\* The coordinates lie in the band of the side: less than 20 px from its edge.
InBand(coords, side) == DistanceFromEdge(coords, side) < EDGE_THRESHOLD

\* The point is more than 100 px away from its begin along the side's axis.
Overshoots(pt, side) ==
  IF side \in {"ST_SIDE_LEFT", "ST_SIDE_RIGHT"}
    THEN Abs(pt.coords.x - pt.begin_coords.x) > CANCEL_THRESHOLD
    ELSE Abs(pt.coords.y - pt.begin_coords.y) > CANCEL_THRESHOLD

\* The step makes the gesture Recognizing, out of Possible, before anything
\* else.
Promotes ==
  /\ Len(transitions') >= 1
  /\ transitions'[1] = <<POSSIBLE, RECOGNIZING>>

\* C21 as stated: while the gesture is Possible, a move that takes the point
\* out of the band without overshooting makes it Recognizing, and a move that
\* keeps the point inside the band leaves it Possible and emits no progress.
C21_BandDecidesPromotion ==
  [][ (EdgePointMoved /\ state = POSSIBLE)
      => /\ ( /\ ~InBand(point'.coords, edge_priv.side)
              /\ ~Overshoots(point', edge_priv.side) )
            => Promotes
         /\ ( /\ InBand(point.coords, edge_priv.side)
              /\ InBand(point'.coords, edge_priv.side) )
            => (state' = POSSIBLE /\ signals' = << >>) ]_vars

\* C21 amended: while the gesture is Possible, a move that does not overshoot
\* makes it Recognizing when it takes the point out of the band, and leaves it
\* Possible, emitting no progress, when it keeps the point inside the band.
C21_BandDecidesPromotionShortOfOvershoot ==
  [][ ( /\ EdgePointMoved
        /\ state = POSSIBLE
        /\ ~Overshoots(point', edge_priv.side) )
      => /\ ~InBand(point'.coords, edge_priv.side) => Promotes
         /\ InBand(point'.coords, edge_priv.side)
              => (state' = POSSIBLE /\ signals' = << >> /\ transitions' = << >>)
     ]_vars

\* A move to the pixel at the band's width from the edge has just made the
\* gesture Recognizing.
C21_Witness ==
  /\ klass = "EdgeDrag"
  /\ last_op = "point_moved"
  /\ state = RECOGNIZING
  /\ transitions = << <<POSSIBLE, RECOGNIZING>> >>
  /\ DistanceFromEdge(point.coords, edge_priv.side) = EDGE_THRESHOLD

\* Displacement of the point since it began along the axis of the side, with
\* its sign.
SignedDisplacement(pt, side) ==
  IF side \in {"ST_SIDE_LEFT", "ST_SIDE_RIGHT"}
    THEN pt.coords.x - pt.begin_coords.x
    ELSE pt.coords.y - pt.begin_coords.y

\* The step emits exactly one signal, a progress notification of value v.
EmitsOneProgress(v) ==
  /\ Len(signals') = 1
  /\ signals'[1].signal = "progress"
  /\ signals'[1].value = v

\* C22 as stated: every move handled while the gesture is Recognizing, the
\* promoting move included, emits exactly one progress notification, whose
\* value is the signed displacement along the axis of the side.
C22_ProgressIsSignedDisplacement ==
  [][ (EdgePointMoved /\ (state = RECOGNIZING \/ Promotes))
      => EmitsOneProgress(SignedDisplacement(point', edge_priv.side)) ]_vars

\* C22 amended: every move handled while the gesture is Recognizing that does
\* not overshoot, the promoting move included, emits exactly one progress
\* notification, whose value is the absolute displacement along the axis of
\* the side; a move that overshoots emits none.
C22_ProgressIsAbsoluteDisplacement ==
  [][ EdgePointMoved
      => /\ ( /\ state = RECOGNIZING \/ Promotes
              /\ ~Overshoots(point', edge_priv.side) )
            => EmitsOneProgress(
                 Abs(SignedDisplacement(point', edge_priv.side)))
         /\ Overshoots(point', edge_priv.side) => signals' = << >> ]_vars

\* A drag away from the bottom edge, against the direction of the axis, has
\* just reported its progress as a positive value.
C22_Witness ==
  /\ klass = "EdgeDrag"
  /\ last_op = "point_moved"
  /\ state = RECOGNIZING
  /\ edge_priv.side = "ST_SIDE_BOTTOM"
  /\ SignedDisplacement(point, edge_priv.side) < 0
  /\ signals = << [signal |-> "progress",
                   value |-> -SignedDisplacement(point, edge_priv.side),
                   state |-> RECOGNIZING] >>

\* The copies the two pointers of the instance hold.
Held(priv) ==
  { e.copy : e \in {priv.point_begin_event, priv.drag_triggering_event} \ {NULL} }

\* C23: the event copies allocated and not freed are those the two pointers
\* hold, each under its own pointer (none was overwritten while held), no copy
\* is freed twice, none is held while the gesture is Cancelled or Completed,
\* and a step frees a copy only as it makes the gesture Cancelled or Completed.
C23_CopiesReleasedOnce ==
  /\ [](klass = "DndStart"
          => /\ event_copies.live = Held(dnd_priv)
             /\ ~event_copies.invalid_free
             /\ ( /\ dnd_priv.point_begin_event # NULL
                  /\ dnd_priv.drag_triggering_event # NULL )
                => dnd_priv.point_begin_event.copy
                     # dnd_priv.drag_triggering_event.copy
             /\ Terminal => event_copies.live = {})
  /\ [][ (event_copies.live \ event_copies'.live # {})
         => \E i \in 1 .. Len(transitions') :
              transitions'[i][2] \in {CANCELLED, COMPLETED} ]_vars

\* A touchpad move has just completed the gesture: the copy of the begin event
\* and the copy of the triggering event have both been freed.
C23_Witness ==
  /\ klass = "DndStart"
  /\ last_op = "point_moved"
  /\ transitions = << <<POSSIBLE, COMPLETED>> >>
  /\ point.event.device = "TOUCHPAD_DEVICE"
  /\ event_copies = [live |-> {}, invalid_free |-> FALSE]
  /\ Held(dnd_priv) = {}

\* C24: every transition of a ShellEdgeDragGesture to Completed is made from
\* Recognizing, inside a point_moved callback, and every transition to
\* Recognizing is made from Possible.
C24_CompletedOnlyThroughRecognizing ==
  [][ klass = "EdgeDrag"
      => /\ \A i \in 1 .. Len(transitions') :
              /\ transitions'[i][2] = COMPLETED
                   => (transitions'[i][1] = RECOGNIZING /\ EdgePointMoved)
              /\ transitions'[i][2] = RECOGNIZING
                   => transitions'[i][1] = POSSIBLE
         /\ (state # COMPLETED /\ state' = COMPLETED)
              => /\ EdgePointMoved
                 /\ transitions'[Len(transitions')] = <<RECOGNIZING, COMPLETED>>
     ]_vars

\* A single move has taken a Possible gesture through Recognizing to
\* Completed.
C24_Witness ==
  /\ klass = "EdgeDrag"
  /\ last_op = "point_moved"
  /\ state = COMPLETED
  /\ transitions = << <<POSSIBLE, RECOGNIZING>>, <<RECOGNIZING, COMPLETED>> >>

\* C25: the assertion of point_began, that no cancel timer is armed when it
\* arms one, never fails.
C25_ArmingAssertionHolds ==
  /\ [](klass = "EdgeDrag" => ~aborted)
  /\ [][ (EdgePointBegan /\ edge_priv'.cancel_timeout_id # 0)
         => (edge_priv.cancel_timeout_id = 0 /\ sources = {}) ]_vars

\* point_began has just armed the cancel timer of a touch in the band.
C25_Witness ==
  /\ klass = "EdgeDrag"
  /\ last_op = "point_began"
  /\ n_points = 1
  /\ state = POSSIBLE
  /\ ~aborted
  /\ edge_priv.cancel_timeout_id # 0
  /\ sources = {edge_priv.cancel_timeout_id}

C27_ProgressWithinCancelDistance ==
  [][ \A i \in ProgressIn(signals') :
        /\ signals'[i].value >= 0
        /\ signals'[i].value <= CANCEL_THRESHOLD ]_vars

\* A progress of exactly the cancel distance has just been emitted.
C27_Witness ==
  /\ klass = "EdgeDrag"
  /\ last_op = "point_moved"
  /\ Len(signals) = 1
  /\ signals[1].signal = "progress"
  /\ signals[1].value = CANCEL_THRESHOLD

\* C28: between the callbacks and calls of a ShellDndStartGesture,
\* get_drag_triggering_event returns null.
C28_TriggeringEventNeverObserved ==
  klass = "DndStart"
    => shell_dnd_start_gesture_get_drag_triggering_event(dnd_priv) = NULL

\* The owner's start_drag has returned from completing the gesture of a pointer
\* press, and the triggering event is null.
C28_Witness ==
  /\ klass = "DndStart"
  /\ last_op = "start_drag"
  /\ state = COMPLETED
  /\ transitions = << <<POSSIBLE, COMPLETED>> >>
  /\ point.event.device = "POINTER_DEVICE"
  /\ dnd_priv.drag_triggering_event = NULL

====
